---------------------------- MODULE Spec2Model ----------------------------
(***************************************************************************)
(* A model of the Wave Function Collapse generator of                      *)
(* evals/registry/data/simple_physics_engine/wave_function_collapse.py.    *)
(*                                                                         *)
(* The wave is a function from 0-based coordinates <<i, j>> to the list of *)
(* tiles still possible there (a Python list, modelled as a sequence in    *)
(* the list's order).  Every call of the random module is a \E over the    *)
(* values the call can return.                                             *)
(***************************************************************************)
EXTENDS Integers, Sequences, FiniteSets, TLC

\* Bounds of the model: the largest height and width generate is called with
\* (in the runs checked for safety, and in the runs checked for termination),
\* and the largest height and width of the wave of a direct call of propagate.
MaxH == 4
MaxW == 4
MaxFairH == 3
MaxFairW == 3
MaxPropH == 4
MaxPropW == 4

VARIABLES
    height,       \* generate_collapsed_wave's argument
    width,        \* generate_collapsed_wave's argument
    wave,         \* the wave array
    iter,         \* iterations of the nested for loop of lines 180-181 completed
    tile_coords,  \* the coordinates find_lowest_entropy_tile returned
    stack,        \* propagate's local stack
    pc,           \* where the call is, or how it ended
    args,         \* the arguments of a helper function called directly
    ret           \* the value that call returned

vars == <<height, width, wave, iter, tile_coords, stack, pc, args, ret>>

---------------------------------------------------------------------------
\* Directions (lines 19-22) and tiles (lines 24-28).
ABOVE == <<-1, 0>>
BELOW == <<1, 0>>
LEFT == <<0, -1>>
RIGHT == <<0, 1>>

BLOCK == "BLOCK"
LEFT_RAMP == "LEFT_RAMP"
RIGHT_RAMP == "RIGHT_RAMP"
AIR == "AIR"
BALL == "BALL"

Directions == {ABOVE, BELOW, LEFT, RIGHT}

get_rules ==
    << <<AIR, ABOVE, AIR>>,
       <<AIR, BELOW, AIR>>,
       <<AIR, LEFT, AIR>>,
       <<AIR, RIGHT, AIR>>,
       <<BLOCK, ABOVE, BLOCK>>,
       <<BLOCK, RIGHT, BLOCK>>,
       <<BLOCK, LEFT, BLOCK>>,
       <<BLOCK, BELOW, BLOCK>>,
       <<BLOCK, RIGHT, AIR>>,
       <<AIR, LEFT, BLOCK>>,
       <<BLOCK, LEFT, AIR>>,
       <<AIR, RIGHT, BLOCK>>,
       <<BLOCK, BELOW, AIR>>,
       <<AIR, ABOVE, BLOCK>>,
       <<LEFT_RAMP, BELOW, AIR>>,
       <<AIR, ABOVE, LEFT_RAMP>>,
       <<RIGHT_RAMP, BELOW, AIR>>,
       <<AIR, ABOVE, RIGHT_RAMP>>,
       <<AIR, RIGHT, RIGHT_RAMP>>,
       <<RIGHT_RAMP, LEFT, AIR>>,
       <<AIR, LEFT, LEFT_RAMP>>,
       <<LEFT_RAMP, RIGHT, AIR>>,
       <<LEFT_RAMP, ABOVE, BLOCK>>,
       <<BLOCK, BELOW, LEFT_RAMP>>,
       <<RIGHT_RAMP, ABOVE, BLOCK>>,
       <<BLOCK, BELOW, RIGHT_RAMP>>,
       <<LEFT_RAMP, LEFT, BLOCK>>,
       <<BLOCK, RIGHT, LEFT_RAMP>>,
       <<RIGHT_RAMP, RIGHT, BLOCK>>,
       <<BLOCK, LEFT, RIGHT_RAMP>> >>

\* Mutant of Rules: the last line of the table is missing.
Rules_without_last == { get_rules[k] : k \in 1..(Len(get_rules) - 1) }

\* The rule table as a set of triples.
Rules == { get_rules[k] : k \in 1..Len(get_rules) }

init_possibilities == <<BLOCK, LEFT_RAMP, RIGHT_RAMP, AIR>>

BaseTiles == { init_possibilities[k] : k \in 1..Len(init_possibilities) }

---------------------------------------------------------------------------
\* Helpers on lists and grids.
Range(s) == { s[k] : k \in 1..Len(s) }

Cells(h, w) == (0..(h - 1)) \X (0..(w - 1))

\* The cells in the order of the nested loops "for i ... for j ...".
RowMajor(h, w) == [k \in 1..(h * w) |-> <<(k - 1) \div w, (k - 1) % w>>]

\* list.remove(x): the list without the first occurrence of x.
RECURSIVE ListRemove(_, _)
ListRemove(list, x) ==
    IF list = <<>> THEN <<>>
    ELSE IF Head(list) = x THEN Tail(list)
    ELSE <<Head(list)>> \o ListRemove(Tail(list), x)

Plus(coords, vec) == <<coords[1] + vec[1], coords[2] + vec[2]>>

---------------------------------------------------------------------------
\* Mutant of create_wave_array: the side walls are assigned before the first
\* and the last row instead of after them.
create_wave_array_walls_first(h, w) ==
    [c \in Cells(h, w) |->
        IF c[1] = h - 1 THEN <<BLOCK>>
        ELSE IF c[1] = 0 THEN <<AIR>>
        ELSE IF c[2] \in {0, w - 1} THEN <<BLOCK>>
        ELSE init_possibilities]

\* create_wave_array: the assignments of lines 92-101 in their order, the
\* last one that applies to a cell deciding it.
create_wave_array(h, w) ==
    [c \in Cells(h, w) |->
        IF c[2] \in {0, w - 1} THEN <<BLOCK>>
        ELSE IF c[1] = h - 1 THEN <<BLOCK>>
        ELSE IF c[1] = 0 THEN <<AIR>>
        ELSE init_possibilities]

\* What calculate_entropy yields when it raises ContradictionException
\* (line 117) instead of returning a quotient.
ContradictionRaised == -1

\* Mutant of calculate_entropy: an empty tile has entropy 0 and nothing is
\* raised.
calculate_entropy_zero_for_empty(tile) ==
    IF Len(tile) # 0 THEN 12 \div Len(tile) ELSE 0

\* calculate_entropy: 1 / len(tile), scaled by 12 so that it is an integer
\* for the lengths 1..4 a list of distinct base tiles can have (the scaling
\* keeps the order and the equality of the quotients); the raise otherwise.
calculate_entropy(tile) ==
    IF Len(tile) # 0 THEN 12 \div Len(tile) ELSE ContradictionRaised

\* calculate_entropy raises ContradictionException on this tile.
EntropyRaises(tile) == calculate_entropy(tile) = ContradictionRaised

\* Mutant of collapse_tile: random.choice draws from init_possibilities()
\* instead of from the tile's own list.
collapse_tile_from_all(tile, k) == <<init_possibilities[k]>>

\* Mutant of collapse_tile: the selection is made and the other options are
\* not removed.
collapse_tile_keeps_options(tile, k) == tile

\* collapse_tile, with random.choice returning the k-th element.
collapse_tile(tile, k) == <<tile[k]>>

\* The scan of find_lowest_entropy_tile (lines 141-150) from the k-th cell
\* on; min_entropy = 0 stands for None.  (The arguments are bound through
\* one-element sets so that TLC evaluates them once.)
RECURSIVE ScanTiles(_, _, _, _, _)
ScanTiles(w, cells, k, min_entropy0, possible_coords0) ==
    LET Body(min_entropy, possible_coords) ==
            IF k > Len(cells) THEN possible_coords
            ELSE LET current_entropy == calculate_entropy(w[cells[k]]) IN
                IF current_entropy = min_entropy
                THEN ScanTiles(w, cells, k + 1, min_entropy,
                               Append(possible_coords, cells[k]))
                ELSE IF min_entropy = 0 \/ current_entropy < min_entropy
                THEN ScanTiles(w, cells, k + 1, current_entropy, <<cells[k]>>)
                ELSE ScanTiles(w, cells, k + 1, min_entropy, possible_coords)
    IN  CHOOSE r \in { Body(m, p) : m \in {min_entropy0}, p \in {possible_coords0} } :
            TRUE

\* Mutant of possible_coords_of: the selector returns min_coords, the first
\* cell of the scan that reached the minimum, and draws nothing.
possible_coords_first_only(w, h, wd) ==
    <<ScanTiles(w, RowMajor(h, wd), 1, 0, <<>>)[1]>>

\* Mutant of possible_coords_of: random.choice draws among all the cells,
\* their entropy playing no part.
possible_coords_every_cell(w, h, wd) == RowMajor(h, wd)

\* The list random.choice draws from at line 151.
possible_coords_of(w, h, wd) ==
    CHOOSE r \in { ScanTiles(w, cells, 1, 0, <<>>) : cells \in {RowMajor(h, wd)} } :
        TRUE

\* find_lowest_entropy_tile raises when the scan meets an empty cell.
FindRaises(w) == \E c \in DOMAIN w : EntropyRaises(w[c])

get_valid_directions(h, wd, coords) ==
    (IF coords[1] > 0 THEN <<ABOVE>> ELSE <<>>)
    \o (IF coords[1] < h - 1 THEN <<BELOW>> ELSE <<>>)
    \o (IF coords[2] > 0 THEN <<LEFT>> ELSE <<>>)
    \o (IF coords[2] < wd - 1 THEN <<RIGHT>> ELSE <<>>)

\* Mutant of get_possible_neighbors_in_direction: the test "d == direction"
\* is left out.
neighbors_in_any_direction(tile, direction) ==
    { r[1] : r \in { q \in Rules : q[3] \in Range(tile) } }

\* Mutant of get_possible_neighbors_in_direction: the rule is read from the
\* tile's side, the third components of the rules whose first component is
\* an option of the tile.
neighbors_of_rule_subject(tile, direction) ==
    { r[3] : r \in { q \in Rules : q[2] = direction /\ q[1] \in Range(tile) } }

\* get_possible_neighbors_in_direction: the first components of the rules
\* whose direction is the given one and whose third component is an option
\* of the tile.  The code builds a list; propagate only tests membership.
get_possible_neighbors_in_direction(tile, direction) ==
    { r[1] : r \in { q \in Rules : q[2] = direction /\ q[3] \in Range(tile) } }

\* Mutant of RemoveLoop: the neighbour is pushed at every removal, the test
\* "other_coords not in stack" left out.
RECURSIVE RemoveLoop_pushes_again(_, _, _, _, _)
RemoveLoop_pushes_again(s0, other_coords, other_possibilities, possible_neighbors, k) ==
    LET Body(s) ==
            IF k > Len(other_possibilities) THEN s
            ELSE IF other_possibilities[k] \notin possible_neighbors
            THEN RemoveLoop_pushes_again(
                    [wave |-> [s.wave EXCEPT ![other_coords] =
                                  ListRemove(@, other_possibilities[k])],
                     stack |-> Append(s.stack, other_coords)],
                    other_coords, other_possibilities, possible_neighbors, k + 1)
            ELSE RemoveLoop_pushes_again(s, other_coords, other_possibilities,
                                         possible_neighbors, k + 1)
    IN  CHOOSE r \in { Body(s) : s \in {s0} } : TRUE

\* The loop of lines 238-242 over the copy other_possibilities, from its
\* k-th element on: s is [wave, stack].  (The argument is bound through a
\* one-element set so that TLC evaluates it once.)
RECURSIVE RemoveLoop(_, _, _, _, _)
RemoveLoop(s0, other_coords, other_possibilities, possible_neighbors, k) ==
    LET Body(s) ==
            IF k > Len(other_possibilities) THEN s
            ELSE IF other_possibilities[k] \notin possible_neighbors
            THEN RemoveLoop(
                    [wave |-> [s.wave EXCEPT ![other_coords] =
                                  ListRemove(@, other_possibilities[k])],
                     stack |-> IF other_coords \notin Range(s.stack)
                               THEN Append(s.stack, other_coords)
                               ELSE s.stack],
                    other_coords, other_possibilities, possible_neighbors, k + 1)
            ELSE RemoveLoop(s, other_coords, other_possibilities,
                            possible_neighbors, k + 1)
    IN  CHOOSE r \in { Body(s) : s \in {s0} } : TRUE

\* Mutant of PropagateDirection: the push of lines 241-242 is outside the
\* "if other_possibility not in possible_neighbors" and happens for every
\* non-empty neighbour.
PropagateDirection_always_pushes(s0, curr_coords, vec) ==
    LET other_coords == Plus(curr_coords, vec)
        Body(s) ==
            IF Len(s.wave[other_coords]) = 0 THEN s
            ELSE LET t == RemoveLoop(s, other_coords, s.wave[other_coords],
                             get_possible_neighbors_in_direction(
                                 s.wave[curr_coords], vec),
                             1)
                 IN  [wave |-> t.wave,
                      stack |-> IF other_coords \notin Range(t.stack)
                                THEN Append(t.stack, other_coords)
                                ELSE t.stack]
    IN  CHOOSE r \in { Body(s) : s \in {s0} } : TRUE

\* Mutant of PropagateDirection: the test of line 234 looks at the current
\* cell instead of the neighbour, so an emptied cell removes nothing from
\* its neighbours.
PropagateDirection_skips_empty_current(s0, curr_coords, vec) ==
    LET other_coords == Plus(curr_coords, vec)
        Body(s) ==
            IF Len(s.wave[curr_coords]) = 0 THEN s
            ELSE RemoveLoop(s, other_coords, s.wave[other_coords],
                    get_possible_neighbors_in_direction(s.wave[curr_coords], vec),
                    1)
    IN  CHOOSE r \in { Body(s) : s \in {s0} } : TRUE

\* One pass of the body of "for vec in get_valid_directions" (lines 228-242).
PropagateDirection(s0, curr_coords, vec) ==
    LET other_coords == Plus(curr_coords, vec)
        Body(s) ==
            IF Len(s.wave[other_coords]) = 0 THEN s
            ELSE RemoveLoop(s, other_coords, s.wave[other_coords],
                    get_possible_neighbors_in_direction(s.wave[curr_coords], vec),
                    1)
    IN  CHOOSE r \in { Body(s) : s \in {s0} } : TRUE

\* The for loop of line 227 from the k-th direction on.
RECURSIVE DirectionLoop(_, _, _, _)
DirectionLoop(s, curr_coords, dirs, k) ==
    IF k > Len(dirs) THEN s
    ELSE DirectionLoop(PropagateDirection(s, curr_coords, dirs[k]),
                       curr_coords, dirs, k + 1)

\* One iteration of "while stack" (lines 224-242): pop, then every direction.
PropagatePop(w, st, h, wd) ==
    LET curr_coords == st[Len(st)]
    IN  DirectionLoop([wave |-> w, stack |-> SubSeq(st, 1, Len(st) - 1)],
                      curr_coords, get_valid_directions(h, wd, curr_coords), 1)

\* Mutant of ball_placements: random.randint(0, width - 1), the walls not
\* accounted for.
ball_placements_with_walls(wd) == 0..(wd - 1)

\* random.randint(1, width - 2) of place_ball: the values it can return; it
\* raises ValueError when there is none.
ball_placements(wd) == 1..(wd - 2)

place_ball(w, ball_placement) == [w EXCEPT ![<<0, ball_placement>>] = <<BALL>>]

\* Mutant of loop_iterations: the loops run once per interior cell only.
loop_iterations_interior(h, wd) == (h - 2) * (wd - 2)

\* Mutant of loop_iterations: the loops run once too often.
loop_iterations_one_more(h, wd) == h * wd + 1

\* The number of times the body of the nested loops of lines 180-181 runs:
\* once per row of the wave and per element of that row.
loop_iterations(h, wd) == h * wd

---------------------------------------------------------------------------
\* generate_collapsed_wave(height, width), heights and widths from 2 up.
NoCoords == <<-1, -1>>

\* No helper function is called directly.
NoCall == <<>>

Init ==
    /\ height \in 2..MaxH
    /\ width \in 2..MaxW
    /\ wave = create_wave_array(height, width)
    /\ iter = 0
    /\ tile_coords = NoCoords
    /\ stack = <<>>
    /\ pc = "select"
    /\ args = NoCall
    /\ ret = NoCall

\* Line 182: find_lowest_entropy_tile(wave).
FindLowestEntropyTile ==
    /\ pc = "select"
    /\ IF FindRaises(wave)
       THEN /\ pc' = "ContradictionException"
            /\ UNCHANGED tile_coords
       ELSE /\ \E possible_coords \in {possible_coords_of(wave, height, width)} :
                  tile_coords' \in Range(possible_coords)
            /\ pc' = "collapse"
    /\ UNCHANGED <<args, ret, height, width, wave, iter, stack>>

\* Line 185: wave[i][j] = collapse_tile(wave[i][j]); random.choice of an empty
\* list raises IndexError.
CollapseTile ==
    /\ pc = "collapse"
    /\ IF Len(wave[tile_coords]) = 0
       THEN /\ pc' = "IndexError"
            /\ UNCHANGED wave
       ELSE /\ \E k \in 1..Len(wave[tile_coords]) :
                  wave' = [wave EXCEPT ![tile_coords] = collapse_tile(@, k)]
            /\ pc' = "propagate"
    /\ UNCHANGED <<args, ret, height, width, iter, tile_coords, stack>>

\* Line 222: propagate is entered, stack = [coords].
PropagateBegin ==
    /\ pc = "propagate"
    /\ stack' = <<tile_coords>>
    /\ pc' = "while_stack"
    /\ UNCHANGED <<args, ret, height, width, wave, iter, tile_coords>>

\* Lines 223-242: one iteration of the while loop.
PropagateStep ==
    /\ pc = "while_stack"
    /\ stack # <<>>
    /\ \E s \in {PropagatePop(wave, stack, height, width)} :
           /\ wave' = s.wave
           /\ stack' = s.stack
    /\ UNCHANGED <<args, ret, height, width, iter, tile_coords, pc>>

\* The while loop ends, propagate returns into the loops of lines 180-181,
\* which end after height * width iterations.
PropagateReturn ==
    /\ pc = "while_stack"
    /\ stack = <<>>
    /\ iter' = iter + 1
    /\ pc' = IF iter + 1 >= loop_iterations(height, width)
             THEN "place_ball" ELSE "select"
    /\ UNCHANGED <<args, ret, height, width, wave, tile_coords, stack>>

\* Lines 190-192: place_ball(wave); return wave.
PlaceBall ==
    /\ pc = "place_ball"
    /\ IF ball_placements(width) = {}
       THEN /\ pc' = "ValueError"
            /\ UNCHANGED wave
       ELSE /\ \E b \in ball_placements(width) : wave' = place_ball(wave, b)
            /\ pc' = "returned"
    /\ UNCHANGED <<args, ret, height, width, iter, tile_coords, stack>>

Next ==
    \/ FindLowestEntropyTile
    \/ CollapseTile
    \/ PropagateBegin
    \/ PropagateStep
    \/ PropagateReturn
    \/ PlaceBall

Spec == Init /\ [][Next]_vars

\* The program is sequential: a call that has not ended takes its next step.
FairInit ==
    /\ height \in 2..MaxFairH
    /\ width \in 2..MaxFairW
    /\ wave = create_wave_array(height, width)
    /\ iter = 0
    /\ tile_coords = NoCoords
    /\ stack = <<>>
    /\ pc = "select"
    /\ args = NoCall
    /\ ret = NoCall

FairSpec == FairInit /\ [][Next]_vars /\ WF_vars(Next)

---------------------------------------------------------------------------
\* propagate(wave, coords) called directly, on a wave that create_wave_array
\* built and in which one cell was then set by hand to any list of distinct
\* base tiles (in the order of init_possibilities, the empty list and the
\* cell's own list included), from any coordinates of the grid.
RECURSIVE SubLists(_)
SubLists(list) ==
    IF list = <<>> THEN {<<>>}
    ELSE LET rest == SubLists(Tail(list))
         IN  rest \cup { <<Head(list)>> \o r : r \in rest }

ForcedWaves(h, wd) ==
    { [create_wave_array(h, wd) EXCEPT ![c] = f] :
        c \in Cells(h, wd), f \in SubLists(init_possibilities) }

PropInit ==
    /\ height \in 2..MaxPropH
    /\ width \in 2..MaxPropW
    /\ wave \in ForcedWaves(height, width)
    /\ tile_coords \in Cells(height, width)
    /\ iter = 0
    /\ stack = <<>>
    /\ pc = "propagate"
    /\ args = NoCall
    /\ ret = NoCall

\* The while loop ends and propagate returns to its caller.
PropagateDone ==
    /\ pc = "while_stack"
    /\ stack = <<>>
    /\ pc' = "done"
    /\ UNCHANGED <<args, ret, height, width, wave, iter, tile_coords, stack>>

PropNext ==
    \/ PropagateBegin
    \/ PropagateStep
    \/ PropagateDone

PropSpec == PropInit /\ [][PropNext]_vars

PropFairSpec == PropSpec /\ WF_vars(PropNext)

---------------------------------------------------------------------------
\* Vocabulary of the claims.
GridCells == Cells(height, width)

\* The solve loop has ended and place_ball is about to place the marker on a
\* grid that has an interior column: the resolved grid of a generate that
\* returns, before the marker overwrite.
Solved == pc = "place_ball" /\ ball_placements(width) # {}

MarkerCells == { c \in GridCells : BALL \in Range(wave[c]) }

\* C1: when generate returns a grid, every cell of it holds exactly one
\* tile: none is empty and none has two or more possibilities left.
C1_ReturnedGridIsCollapsed ==
    pc = "returned" => \A c \in GridCells : Len(wave[c]) = 1

\* A 4x4 grid, whose four interior cells started with four possibilities,
\* was returned.
C1_Witness == pc = "returned" /\ height = 4 /\ width = 4

\* C2 as stated: in the resolved grid, for every cell c1 with tile t1 and
\* every direction d whose neighbour c2 = c1 + d is in the grid, with tile
\* t2, the rule table contains (t1, d, t2).
C2_RuleSubjectAtSource ==
    Solved =>
        \A c1 \in GridCells : \A d \in Directions :
            Plus(c1, d) \in GridCells =>
                \A t1 \in Range(wave[c1]) : \A t2 \in Range(wave[Plus(c1, d)]) :
                    <<t1, d, t2>> \in Rules

\* C2 amended: in the resolved grid, for every cell c1 with tile t1 and
\* every direction d whose neighbour c2 = c1 + d is in the grid, with tile
\* t2, the rule table contains (t2, d, t1): the subject of a rule is the
\* tile located 'direction' away from the tile in its third place.
C2_RuleSubjectAtNeighbour ==
    Solved =>
        \A c1 \in GridCells : \A d \in Directions :
            Plus(c1, d) \in GridCells =>
                \A t1 \in Range(wave[c1]) : \A t2 \in Range(wave[Plus(c1, d)]) :
                    <<t2, d, t1>> \in Rules

\* A resolved grid in which an interior cell holds a ramp.
C2_Witness ==
    Solved /\ \E c \in GridCells : wave[c] \in {<<LEFT_RAMP>>, <<RIGHT_RAMP>>}

\* C3 as stated: in a returned grid every cell of row 0 is Air except
\* exactly one that is Marker, every cell of row H-1 is Block, and every
\* cell of columns 0 and W-1, in every row, is Block.
C3_WholeTopRowAir ==
    pc = "returned" =>
        /\ \A j \in 0..(width - 1) : wave[<<0, j>>] \in {<<AIR>>, <<BALL>>}
        /\ Cardinality({ j \in 0..(width - 1) : wave[<<0, j>>] = <<BALL>> }) = 1
        /\ \A j \in 0..(width - 1) : wave[<<height - 1, j>>] = <<BLOCK>>
        /\ \A i \in 0..(height - 1) :
              wave[<<i, 0>>] = <<BLOCK>> /\ wave[<<i, width - 1>>] = <<BLOCK>>

\* C3 amended: in a returned grid every cell of row 0 strictly between
\* columns 0 and W-1 is Air except exactly one that is Marker, every cell of
\* row H-1 is Block, and every cell of columns 0 and W-1, in every row (the
\* two corners of row 0 included), is Block.
C3_InteriorTopRowAir ==
    pc = "returned" =>
        /\ \A j \in 1..(width - 2) : wave[<<0, j>>] \in {<<AIR>>, <<BALL>>}
        /\ Cardinality({ j \in 1..(width - 2) : wave[<<0, j>>] = <<BALL>> }) = 1
        /\ \A j \in 0..(width - 1) : wave[<<height - 1, j>>] = <<BLOCK>>
        /\ \A i \in 0..(height - 1) :
              wave[<<i, 0>>] = <<BLOCK>> /\ wave[<<i, width - 1>>] = <<BLOCK>>

\* A grid with interior rows and two interior columns was returned.
C3_Witness == pc = "returned" /\ height >= 3 /\ width = 4

\* C4: a returned grid has exactly one Marker cell, in row 0 at a column
\* strictly between 0 and W-1; and the step of place_ball that leads to the
\* return overwrites a cell that held Air, on a grid without Marker, and
\* leaves every other cell as it was.
C4_MarkerPlacement ==
    /\ [](pc = "returned" =>
            /\ Cardinality(MarkerCells) = 1
            /\ \A c \in MarkerCells :
                  c[1] = 0 /\ c[2] > 0 /\ c[2] < width - 1 /\ wave[c] = <<BALL>>)
    /\ [][(pc = "place_ball" /\ pc' = "returned") =>
            \E c \in GridCells :
                /\ wave[c] = <<AIR>>
                /\ wave'[c] = <<BALL>>
                /\ \A o \in GridCells \ {c} :
                      wave'[o] = wave[o] /\ BALL \notin Range(wave[o])]_vars

\* The marker was placed on the second of two interior columns.
C4_Witness == pc = "returned" /\ width = 4 /\ wave[<<0, 2>>] = <<BALL>>

SomeEmpty == \E c \in GridCells : Len(wave[c]) = 0

\* C5: propagate only reads cells of the grid (it cannot raise); a cell is
\* empty only inside propagate, at the selector call that follows it, or
\* after ContradictionException was raised, so never at a collapse, at the
\* marker placement or in a returned grid; the selector call that finds an
\* empty cell raises ContradictionException and leaves the grid as it is;
\* and the exception ends the run.
C5_ContradictionSignalled ==
    /\ [](pc = "while_stack" =>
            \A k \in 1..Len(stack) :
                /\ stack[k] \in GridCells
                /\ \A vec \in Range(get_valid_directions(height, width, stack[k])) :
                      Plus(stack[k], vec) \in GridCells)
    /\ [](SomeEmpty => pc \in {"while_stack", "select", "ContradictionException"})
    /\ [][(pc = "select" /\ SomeEmpty) =>
            (pc' = "ContradictionException" /\ wave' = wave)]_vars
    /\ [][pc = "ContradictionException" => pc' = "ContradictionException"]_vars

\* ContradictionException was raised by the third selector call or later.
C5_Witness == pc = "ContradictionException" /\ iter >= 2

\* C6 as stated: a generate call ends only by returning a grid or by
\* raising ContradictionException; no other error arises.
C6_OnlyContradictionException ==
    pc \in {"select", "collapse", "propagate", "while_stack", "place_ball",
            "returned", "ContradictionException"}

\* The list wave'[c] is the list wave[c] with some elements removed.
Shrinks(c) ==
    /\ Range(wave'[c]) \subseteq Range(wave[c])
    /\ Len(wave'[c]) <= Len(wave[c])

\* C7: every step of the solve loop (a selection, a collapse, the
\* processing of one stack entry) leaves each cell's list a sub-list of what
\* it was, so no list grows and no removed tile comes back; and no cell
\* holds Marker before place_ball has returned.
C7_Monotone ==
    /\ [][pc # "place_ball" =>
            \/ wave' = wave
            \/ \A c \in GridCells : wave'[c] = wave[c] \/ Shrinks(c)]_vars
    /\ [](pc # "returned" => MarkerCells = {})

\* Propagation has narrowed a cell to two or three possibilities.
C7_Witness == \E c \in GridCells : Len(wave[c]) \in {2, 3}

\* The sum of the lengths of all cells' lists.
TotalSize(w) ==
    Cardinality({ e \in (DOMAIN w) \X (1..Len(init_possibilities)) :
                    e[2] <= Len(w[e[1]]) })

\* C8: in every iteration of propagate's while loop, every cell pushed has
\* lost a tile in that iteration and the number of cells pushed is at most
\* the number of tiles removed from the grid; and from every start the loop
\* ends with an empty stack.
C8_PropagateTerminates ==
    /\ [][(pc = "while_stack" /\ stack # <<>>) =>
            /\ \A c \in Range(stack') \ Range(SubSeq(stack, 1, Len(stack) - 1)) :
                  Len(wave'[c]) < Len(wave[c])
            /\ Len(stack') - (Len(stack) - 1)
                  <= TotalSize(wave) - TotalSize(wave')]_vars
    /\ [](pc = "done" => stack = <<>>)
    /\ <>(pc = "done")

\* Two cells are on the stack at once.
C8_Witness == pc = "while_stack" /\ Len(stack) >= 2

Terminal == pc \in {"returned", "ContradictionException", "ValueError", "IndexError"}

\* C9: a generate run never completes more than height * width iterations
\* of the solve loop; it ends; and when it has ended either every cell has
\* exactly one possibility, or some cell is empty, ContradictionException
\* was raised and no cell has two or more possibilities.
C9_TerminatesCollapsedOrContradiction ==
    /\ [](iter <= height * width)
    /\ [](Terminal =>
            \/ \A c \in GridCells : Len(wave[c]) = 1
            \/ /\ pc = "ContradictionException"
               /\ SomeEmpty
               /\ \A c \in GridCells : Len(wave[c]) <= 1)
    /\ <>Terminal

\* A run on a 3x3 grid ended by a contradiction.
C9_Witness == Terminal /\ SomeEmpty /\ height = 3 /\ width = 3

---------------------------------------------------------------------------
\* find_lowest_entropy_tile(wave) called on its own, on the grids
\* create_wave_array builds with one cell set to any sub-list of
\* init_possibilities() and, in half of them, one more cell emptied.
SelWaves(h, wd) ==
    ForcedWaves(h, wd)
    \cup { [g EXCEPT ![e] = <<>>] : g \in ForcedWaves(h, wd), e \in Cells(h, wd) }

SelInit ==
    /\ height \in 2..MaxPropH
    /\ width \in 2..MaxPropW
    /\ wave \in SelWaves(height, width)
    /\ iter = 0
    /\ tile_coords = NoCoords
    /\ stack = <<>>
    /\ pc = "select"
    /\ args = NoCall
    /\ ret = NoCall

SelNext == FindLowestEntropyTile

SelSpec == SelInit /\ [][SelNext]_vars

\* The largest number of options a cell of the grid has.
MaxCount == CHOOSE n \in 0..Len(init_possibilities) :
                /\ \E c \in GridCells : Len(wave[c]) = n
                /\ \A c \in GridCells : Len(wave[c]) <= n

---------------------------------------------------------------------------
\* C12: on every grid with at least one empty cell, wherever it is and
\* whatever the other cells hold, find_lowest_entropy_tile raises
\* ContradictionException instead of returning coordinates, and the grid is
\* as it was.
C12_EmptyCellRaises ==
    [][(pc = "select" /\ \E c \in GridCells : Len(wave[c]) = 0)
       => (pc' = "ContradictionException" /\ wave' = wave
           /\ tile_coords' = tile_coords)]_vars

\* The selector raised on a grid whose last cell is empty while other cells
\* have one option and four options.
C12_Witness ==
    /\ pc = "ContradictionException"
    /\ Len(wave[<<height - 1, width - 1>>]) = 0
    /\ Len(wave[<<0, 0>>]) = 1
    /\ \E c \in GridCells : Len(wave[c]) = 4

---------------------------------------------------------------------------
\* get_possible_neighbors_in_direction(tile, direction) called on its own, on
\* every list of distinct base tiles in the order of init_possibilities(),
\* on the marker's list and in every direction.
NeighInit ==
    /\ height = 0
    /\ width = 0
    /\ wave = <<>>
    /\ iter = 0
    /\ tile_coords = NoCoords
    /\ stack = <<>>
    /\ pc = "call"
    /\ args \in [tile : SubLists(init_possibilities) \cup {<<BALL>>},
                 direction : Directions]
    /\ ret = NoCall

CallNeighbors ==
    /\ pc = "call"
    /\ ret' = get_possible_neighbors_in_direction(args.tile, args.direction)
    /\ pc' = "done"
    /\ UNCHANGED <<args, height, width, wave, iter, tile_coords, stack>>

NeighNext == CallNeighbors

NeighSpec == NeighInit /\ [][NeighNext]_vars

\* The test of lines 215-216 on one triple: is (subject, direction, neighbor)
\* a line of get_rules(), and does get_possible_neighbors_in_direction, given
\* a cell that holds neighbor, allow subject in that direction.
RuleInit ==
    /\ height = 0
    /\ width = 0
    /\ wave = <<>>
    /\ iter = 0
    /\ tile_coords = NoCoords
    /\ stack = <<>>
    /\ pc = "call"
    /\ args \in [subject : BaseTiles \cup {BALL}, direction : Directions,
                 neighbor : BaseTiles \cup {BALL}]
    /\ ret = NoCall

CheckPair ==
    /\ pc = "call"
    /\ ret' = [listed |-> <<args.subject, args.direction, args.neighbor>> \in Rules,
               allowed |-> args.subject \in get_possible_neighbors_in_direction(
                                               <<args.neighbor>>, args.direction)]
    /\ pc' = "done"
    /\ UNCHANGED <<args, height, width, wave, iter, tile_coords, stack>>

RuleNext == CheckPair

RuleSpec == RuleInit /\ [][RuleNext]_vars

---------------------------------------------------------------------------
\* C14 as stated (violated): get_possible_neighbors_in_direction(S, d) returns
\* the tiles B for which some A in S has (A, d, B) in the rule table.
C14_NeighborsOfRuleSubject ==
    pc = "done"
    => \A B \in BaseTiles \cup {BALL} :
          B \in ret <=> \E A \in Range(args.tile) : <<A, args.direction, B>> \in Rules

\* C14 (amended): get_possible_neighbors_in_direction(S, d) returns the tiles
\* A for which some B in S has (A, d, B) in the rule table, the first tiles
\* of the rules whose direction is d and whose third tile is in S.
C14_SubjectsOfRuleNeighbor ==
    pc = "done"
    => \A A \in BaseTiles \cup {BALL} :
          A \in ret <=> \E B \in Range(args.tile) : <<A, args.direction, B>> \in Rules

\* The call with S = [AIR] and d = ABOVE returned Air alone, where the rules
\* that have AIR first and ABOVE second name all four base tiles.
C14_Witness ==
    /\ pc = "done"
    /\ args = [tile |-> <<AIR>>, direction |-> ABOVE]
    /\ ret = {AIR}

\* The direction reversed: opposite(Above) = Below, opposite(Left) = Right.
opposite(d) == <<0 - d[1], 0 - d[2]>>

\* C15: the rule table is symmetric under direction reversal: with every
\* triple (A, d, B) it has (B, opposite(d), A); so the check of a pair of
\* adjacent cells gives the same verdict from either side.
C15_RulesSymmetric ==
    pc = "done"
    => /\ opposite(ABOVE) = BELOW /\ opposite(LEFT) = RIGHT
       /\ ret.listed
            => <<args.neighbor, opposite(args.direction), args.subject>> \in Rules
       /\ ret.allowed
            <=> args.neighbor \in get_possible_neighbors_in_direction(
                                     <<args.subject>>, opposite(args.direction))

\* The triple (BLOCK, LEFT, RIGHT_RAMP), the last line of the table, was
\* looked up and found.
C15_Witness ==
    /\ pc = "done"
    /\ args = [subject |-> BLOCK, direction |-> LEFT, neighbor |-> RIGHT_RAMP]
    /\ ret.listed /\ ret.allowed

---------------------------------------------------------------------------
\* The cells that have the largest number of options.
MaxCountCells == { c \in GridCells : Len(wave[c]) = MaxCount }

\* C13: on a grid with no empty cell find_lowest_entropy_tile returns the
\* coordinates of a cell whose 1/len is minimal, that is whose number of
\* options is maximal; every cell that attains the maximum can be returned,
\* and no cell with fewer options ever is.
C13_SelectsMaxCount ==
    /\ [](pc = "select" /\ ~SomeEmpty
          => \A c \in MaxCountCells :
                ENABLED (FindLowestEntropyTile /\ tile_coords' = c))
    /\ [][(pc = "select" /\ ~SomeEmpty)
          => (pc' = "collapse" /\ tile_coords' \in MaxCountCells)]_vars

\* The selector returned a cell of four options that is not the first such
\* cell of the scan, on a grid that has a cell of two or three options.
C13_Witness ==
    /\ pc = "collapse"
    /\ Len(wave[tile_coords]) = 4
    /\ \E c \in GridCells : Len(wave[c]) \in {2, 3}
    /\ \E c \in GridCells :
          /\ Len(wave[c]) = 4
          /\ c[1] < tile_coords[1] \/ (c[1] = tile_coords[1] /\ c[2] < tile_coords[2])

---------------------------------------------------------------------------
\* generate_collapsed_wave(3, 3) has returned.
Returned3x3 == pc = "returned" /\ height = 3 /\ width = 3

\* C11 as stated (violated): generate_collapsed_wave(3, 3) always resolves,
\* and the grid it returns has the first row Air, Marker, Air, the last row
\* all Block and the columns 0 and 2 Block in every row.
C11_TopRowAirMarkerAir ==
    /\ (height = 3 /\ width = 3) => pc # "ContradictionException"
    /\ Returned3x3 =>
        /\ wave[<<0, 0>>] = <<AIR>>
        /\ wave[<<0, 1>>] = <<BALL>>
        /\ wave[<<0, 2>>] = <<AIR>>
        /\ \A j \in 0..2 : wave[<<2, j>>] = <<BLOCK>>
        /\ \A i \in 0..2 : wave[<<i, 0>>] = <<BLOCK>> /\ wave[<<i, 2>>] = <<BLOCK>>

\* C11 (amended): when generate_collapsed_wave(3, 3) returns, the first row is
\* Block, Marker, Block with the marker at column 1, the last row is all
\* Block, the columns 0 and 2 are Block in every row, and the centre holds
\* one tile, Air or Block, that the rule table allows next to the Air that
\* was above it before the marker was placed and next to the Block below it,
\* left of it and right of it (each rule read as the code reads it, its
\* first tile lying in the rule's direction from its third).
C11_Scenario3x3 ==
    Returned3x3 =>
        /\ wave[<<0, 0>>] = <<BLOCK>>
        /\ wave[<<0, 1>>] = <<BALL>>
        /\ wave[<<0, 2>>] = <<BLOCK>>
        /\ \A j \in 0..2 : wave[<<2, j>>] = <<BLOCK>>
        /\ \A i \in 0..2 : wave[<<i, 0>>] = <<BLOCK>> /\ wave[<<i, 2>>] = <<BLOCK>>
        /\ Len(wave[<<1, 1>>]) = 1
        /\ wave[<<1, 1>>][1] \in {AIR, BLOCK}
        /\ <<AIR, ABOVE, wave[<<1, 1>>][1]>> \in Rules
        /\ <<BLOCK, BELOW, wave[<<1, 1>>][1]>> \in Rules
        /\ <<BLOCK, LEFT, wave[<<1, 1>>][1]>> \in Rules
        /\ <<BLOCK, RIGHT, wave[<<1, 1>>][1]>> \in Rules

\* generate_collapsed_wave(3, 3) returned a grid whose centre is Air.
C11_Witness == Returned3x3 /\ wave[<<1, 1>>] = <<AIR>>

---------------------------------------------------------------------------
\* The cells of the first and last row and of the first and last column.
Boundary ==
    { c \in GridCells : c[1] \in {0, height - 1} \/ c[2] \in {0, width - 1} }

\* Some cell still has two or more options.
SomeUncollapsed == \E c \in GridCells : Len(wave[c]) >= 2

\* C16 as stated (violated): during generate_collapsed_wave the selector
\* never returns a boundary cell, and the boundary cells have exactly one
\* option from create_wave_array on.
C16_NeverSelectsBoundary ==
    /\ pc = "collapse" => tile_coords \notin Boundary
    /\ \A c \in Boundary : Len(wave[c]) = 1

\* C16 (amended): during generate_collapsed_wave the selector does not return
\* a boundary cell in an iteration that starts with some cell of two or more
\* options (in the other iterations it can return any cell); the boundary
\* cells never have more than one option, and exactly one until a
\* contradiction empties cells.
C16_BoundaryNotSelectedWhileUncollapsed ==
    /\ (pc = "collapse" /\ SomeUncollapsed) => tile_coords \notin Boundary
    /\ \A c \in Boundary : Len(wave[c]) <= 1
    /\ ~SomeEmpty => \A c \in Boundary : Len(wave[c]) = 1

\* In a later iteration of a 4x4 call the selector returned an interior cell
\* while another cell also had two or more options.
C16_Witness ==
    /\ pc = "collapse"
    /\ iter >= 1
    /\ tile_coords \notin Boundary
    /\ \E c \in GridCells : c # tile_coords /\ Len(wave[c]) >= 2

---------------------------------------------------------------------------
\* C17 as stated (violated): in every iteration of the loop the cell the
\* selector returned has more than one option before collapse_tile.
C17_SelectedIsUncollapsed ==
    pc = "collapse" => Len(wave[tile_coords]) > 1

\* C17 (amended): collapse_tile leaves the selected cell with exactly one
\* option and the other cells as they were; in an iteration that starts with
\* some cell of two or more options the selected cell had more than one
\* option, in the other iterations it had one and the collapse changes
\* nothing; a cell with at most one option never has two again, so no cell
\* is selected in two iterations of the first kind.
C17_CollapsesOneCellWhileUncollapsed ==
    /\ [][(pc = "collapse" /\ pc' = "propagate")
          => /\ Len(wave'[tile_coords]) = 1
             /\ \A c \in GridCells \ {tile_coords} : wave'[c] = wave[c]
             /\ SomeUncollapsed => Len(wave[tile_coords]) > 1
             /\ ~SomeUncollapsed => wave' = wave]_vars
    /\ [][wave' = wave
          \/ \A c \in GridCells : Len(wave[c]) <= 1 => Len(wave'[c]) <= 1]_vars

\* The selector returned a cell that propagation had narrowed to two or three
\* options.
C17_Witness == pc = "collapse" /\ Len(wave[tile_coords]) \in {2, 3}

---------------------------------------------------------------------------
\* C18: in propagate the stack never holds the same coordinates twice: a
\* neighbour is pushed only when a tile was removed from it and it is not on
\* the stack already; so the stack is never longer than height * width and
\* all its coordinates are inside the grid.
C18_StackHasNoDuplicates ==
    /\ [](/\ \A m, n \in 1..Len(stack) : stack[m] = stack[n] => m = n
          /\ Len(stack) <= height * width
          /\ \A n \in 1..Len(stack) : stack[n] \in GridCells)
    /\ [][pc = "while_stack" /\ pc' = "while_stack"
          => \A c \in Range(stack') :
                \/ c \in Range(SubSeq(stack, 1, Len(stack) - 1))
                \/ /\ c \notin Range(SubSeq(stack, 1, Len(stack) - 1))
                   /\ Len(wave'[c]) < Len(wave[c])]_vars

\* Three cells wait on the stack, one of them narrowed by two tiles or more
\* and pushed once.
C18_Witness ==
    /\ pc = "while_stack"
    /\ Len(stack) >= 3
    /\ \E n \in 1..Len(stack) :
          /\ stack[n] \in GridCells
          /\ Len(wave[stack[n]]) + 2 <= Len(create_wave_array(height, width)[stack[n]])

---------------------------------------------------------------------------
\* Every cell of the grid is empty.
AllEmpty == \A c \in GridCells : Len(wave[c]) = 0

\* C19: when a cell is emptied during a call of propagate, every cell of the
\* grid is empty when the call returns; outside the while loop of propagate
\* the grid has no empty cell or only empty cells.
C19_ContradictionCascade ==
    /\ [](pc # "while_stack" => (~SomeEmpty \/ AllEmpty))
    /\ [][(pc = "while_stack" /\ pc' # "while_stack" /\ SomeEmpty) => AllEmpty']_vars

\* In a 4x4 call propagate has returned, in the second iteration or later,
\* with every cell empty.
C19_Witness ==
    /\ pc = "select"
    /\ iter >= 2
    /\ height = 4 /\ width = 4
    /\ AllEmpty

---------------------------------------------------------------------------
\* Every cell holds exactly one tile.
AllOne == \A c \in GridCells : Len(wave[c]) = 1

\* Every pair of adjacent cells, each with one tile, is a line of the rule
\* table: the neighbour's tile, the direction towards it, the cell's tile.
Consistent ==
    \A c \in GridCells : \A d \in Directions :
        Plus(c, d) \in GridCells
        => <<wave[Plus(c, d)][1], d, wave[c][1]>> \in Rules

\* C20: inside generate_collapsed_wave, when every cell holds exactly one
\* tile at the start of an iteration of the loop, the iteration (select,
\* collapse, propagate) leaves the grid as it is whichever cell is selected;
\* so a contradiction first appears only in an iteration that started with
\* a cell of two or more options.  Stated as an induction over the steps of
\* the iteration: such a grid is consistent with the rule table at the
\* start of the iteration, and no step of an iteration changes a grid that
\* has one tile per cell and is consistent.
C20_StableTail ==
    /\ []((pc = "select" /\ AllOne) => Consistent)
    /\ [][(wave' = wave /\ pc' # "ContradictionException")
          \/ ~(pc \in {"select", "collapse", "propagate", "while_stack"}
               /\ AllOne /\ Consistent)]_vars

\* In a 4x4 call the selector returned a boundary cell, which it does only
\* when every cell has one tile, and propagate is running from that cell.
C20_Witness ==
    /\ pc = "while_stack"
    /\ height = 4 /\ width = 4
    /\ tile_coords \in Boundary
    /\ stack = <<tile_coords>>
    /\ AllOne

=============================================================================
